---- MODULE Spec2Model ----
(***************************************************************************)
(* GPT-Translator: the batch translation pipeline of the subtitle          *)
(* translator (App component: processFiles, updateTask, processSingleTask, *)
(* processQueue, removeTask) and the two provider adapters                 *)
(* (translateSubtitleBatch of openaiService.ts and geminiService.ts).      *)
(*                                                                         *)
(* The repository holds six versions of the App component.  The model      *)
(* carries all of them; `variant` is fixed by Init and never changes:      *)
(*   "A1"  src/App.tsx 1-356        two providers, key checked per batch   *)
(*   "A2"  src/App.tsx 359-720      two providers, key checked up front    *)
(*   "P0"  src/unnamed/part_000     Gemini only, batch 30, 2 s delays      *)
(*   "P1"  src/unnamed/part_001     OpenAI only                            *)
(*   "P2a" src/unnamed/part_002 1-295    OpenAI only, processQueue a stub  *)
(*   "P2b" src/unnamed/part_002 297-673  OpenAI only                       *)
(*                                                                         *)
(* JavaScript runs handlers to completion: a step of the model is the code *)
(* between two suspension points (a provider call, a timer, a file read).  *)
(* A step holds at most one updateTask of a run, so that every value the   *)
(* task list takes is a state; the program points "loop", "batch" and      *)
(* "final" lie inside one continuation and no user event is taken there.   *)
(***************************************************************************)
EXTENDS Integers, Sequences, FiniteSets, TLC

\* ------------------------------------------------------------------ bounds
\* Files ever handed to processFiles.
MaxTasks == 2
\* Entries of the largest subtitle file.
MaxEntries == 3
\* Entries of all files handed to processFiles together.
MaxTotal == 3
\* processQueue invocations that start a run.
MaxRuns == 2
\* Length of the longest provider response.
MaxResp == 2
\* User events other than the start button: file selections, removals, and
\* events of a prompt, of a key or of the provider.
MaxEvents == 2
\* Entries per batch (40 in App.tsx and part_001/part_002, 30 in part_000),
\* scaled down so that files of MaxEntries entries have several batches.
BATCH_SIZE == 2

\* ------------------------------------------------------------------ data
Variants == {"A1", "A2", "P0", "P1", "P2a", "P2b"}

IDLE == "idle"
PROCESSING == "processing"
COMPLETED == "completed"
ERROR == "error"

\* The value of an absent optional field (task.error).
Undefined == "<undefined>"

Providers == {"openai", "gemini"}
Keys == {"", "k1"}
Prompts == {"", "formal"}

\* Text of an untranslated entry and of a translation.
OrigText == "O"
TransText == "T"

\* parseSRT (utils/srtParser) for a file of n recognisable entries: ids 1..n.
SubtitleEntry(i) == [id |-> i, time |-> i, text |-> OrigText]

\* A file handed to processFiles: parseSRT throws on a bad file, and yields n
\* entries otherwise.
BadFile == [bad |-> TRUE, n |-> 0, readable |-> TRUE]
GoodFile(k) == [bad |-> FALSE, n |-> k, readable |-> TRUE]

\* A file whose read fails (a folder that was dropped, a file that is gone):
\* the FileReader fires its error event and never onload.
UnreadableFile == [bad |-> FALSE, n |-> 0, readable |-> FALSE]

FileKinds == {BadFile, UnreadableFile} \cup {GoodFile(k) : k \in 1..MaxEntries}

\* utils/srtParser parseSRT, for a file it accepts.
ParseSRT(file) == [i \in 1..file.n |-> SubtitleEntry(i)]

\* The id a provider echoes in a result: a JSON number or a JSON string.
NumId(v) == [isNum |-> TRUE, v |-> v]
StrId(v) == [isNum |-> FALSE, v |-> v]

\* One element of a provider's translations array; Null is a JSON null.
Null == [isNull |-> TRUE, id |-> NumId(0), translatedText |-> ""]
Result(rid) == [isNull |-> FALSE, id |-> rid, translatedText |-> TransText]

\* An id that no entry of any file carries.
NoSuchId == MaxEntries + 6

ResultPool ==
    {Result(NumId(i)) : i \in (1..MaxEntries) \cup {NoSuchId}}
        \cup {Result(StrId(1)), Null}

SeqsUpTo(S, n) == UNION {[1..k -> S] : k \in 0..n}

Min(a, b) == IF a < b THEN a ELSE b

\* ------------------------------------------------------------ the adapters
\* What the provider's endpoint answers to one request.
\*   "fail"       no HTTP 200 (or no answer): status and the provider's message
\*   "garbage"    HTTP 200, the body's content is not JSON
\*   "wrongshape" HTTP 200, JSON, but not the collection of {id, translatedText}
\*   "list"       HTTP 200, JSON, a translations array
RawFail(status, msg) == [kind |-> "fail", status |-> status, msg |-> msg, value |-> <<>>]
RawGarbage == [kind |-> "garbage", status |-> 200, msg |-> "", value |-> <<>>]
RawWrongShape == [kind |-> "wrongshape", status |-> 200, msg |-> "", value |-> <<>>]
RawList(v) == [kind |-> "list", status |-> 200, msg |-> "", value |-> v]

\* The translations arrays tried: every translation carries the same text, so
\* the order of two results and a repeated result change nothing, and what
\* follows a null element is never read.  One array of each kind is kept.
Rank(r) ==
    IF r.isNull THEN 2 * NoSuchId + 2
    ELSE 2 * r.id.v + (IF r.id.isNum THEN 0 ELSE 1)

Translations ==
    {v \in SeqsUpTo(ResultPool, MaxResp) :
        \A k \in 1..(Len(v) - 1) : Rank(v[k]) < Rank(v[k + 1])}

RawResponses ==
    {RawFail(429, "rate limited"), RawGarbage, RawWrongShape}
        \cup {RawList(v) : v \in Translations}

\* What translateSubtitleBatch settles with.
Resolve(isArray, v) == [ok |-> TRUE, isArray |-> isArray, value |-> v, msg |-> ""]
Reject(msg) == [ok |-> FALSE, isArray |-> FALSE, value |-> <<>>, msg |-> msg]

MsgOpenAIDefault == "Loi API OpenAI"
MsgOpenAIShape == "Phan hoi tu AI khong dung cau truc yeu cau."
MsgSyntaxError == "SyntaxError: Unexpected token"
MsgTypeError == "TypeError"
MsgGeminiShape == "Loi cau truc du lieu tu AI. Dang thu lai..."
MsgGeminiRate == "Tan suat yeu cau qua nhanh. Vui long doi giay lat."
MsgGeminiDefault == "Loi ket noi AI"

\* openaiService.ts translateSubtitleBatch
OpenAIAdapter(raw) ==
    CASE raw.kind = "fail" ->
            Reject(IF raw.msg # "" THEN raw.msg ELSE MsgOpenAIDefault)
      [] raw.kind = "garbage" -> Reject(MsgSyntaxError)
      [] raw.kind = "wrongshape" -> Reject(MsgOpenAIShape)
      [] OTHER -> Resolve(TRUE, raw.value)

\* geminiService.ts translateSubtitleBatch
GeminiAdapter(raw) ==
    CASE raw.kind = "fail" ->
            IF raw.status = 429 THEN Reject(MsgGeminiRate)
            ELSE Reject(IF raw.msg # "" THEN raw.msg ELSE MsgGeminiDefault)
      [] raw.kind = "garbage" -> Reject(MsgGeminiShape)
      [] raw.kind = "wrongshape" -> Resolve(FALSE, <<>>)
      [] OTHER -> Resolve(TRUE, raw.value)

Adapter(provider, raw) ==
    IF provider = "openai" THEN OpenAIAdapter(raw) ELSE GeminiAdapter(raw)

\* ------------------------------------------------------- the orchestrator
\* The provider a variant calls (activeAI in the two-provider variants).
ProvidersOf(v) ==
    CASE v \in {"A1", "A2"} -> Providers
      [] v = "P0" -> {"gemini"}
      [] OTHER -> {"openai"}

\* subs.slice(i, i + BATCH_SIZE), i counted from 0.
Slice(subs, i) == SubSeq(subs, i + 1, Min(i + BATCH_SIZE, Len(subs)))

\* for (let i = 0; i < total; i += BATCH_SIZE) batches.push(slice(i, i + BATCH_SIZE))
NumBatches(subs) == (Len(subs) + BATCH_SIZE - 1) \div BATCH_SIZE
Batches(subs) == [k \in 1..NumBatches(subs) |-> Slice(subs, (k - 1) * BATCH_SIZE)]

\* r.id === tSub.id; part_000 compares with ==, under which "1" equals 1.
IdEquals(v, entryId, rid) ==
    IF v = "P0" THEN rid.v = entryId
    ELSE rid.isNum /\ rid.v = entryId

\* results.findIndex(r => r.id === tSub.id): 0 stands for -1.
FindIndex(v, res, rid) ==
    IF \E k \in 1..Len(res) : IdEquals(v, res[k].id, rid)
    THEN CHOOSE k \in 1..Len(res) :
            /\ IdEquals(v, res[k].id, rid)
            /\ \A j \in 1..(k - 1) : ~IdEquals(v, res[j].id, rid)
    ELSE 0

MergeOneWholeEntry(v, res, tSub) ==
    LET index == FindIndex(v, res, tSub.id)
    IN  IF index = 0 THEN res
        ELSE [res EXCEPT ![index] = [id |-> @.id, time |-> 0, text |-> tSub.translatedText]]

\* The body of the forEach callback for one element that is not null.
MergeOne(v, res, tSub) ==
    LET index == FindIndex(v, res, tSub.id)
    IN  IF index = 0 THEN res
        ELSE [res EXCEPT ![index].text = tSub.translatedText]

\* translatedBatch.forEach(...): reading tSub.id of a null element throws, and
\* the elements before it have been merged by then.
RECURSIVE MergeFrom(_, _, _, _)
MergeFrom(v, res, translated, k) ==
    IF k > Len(translated) THEN [res |-> res, threw |-> FALSE]
    ELSE IF translated[k].isNull THEN [res |-> res, threw |-> TRUE]
    ELSE MergeFrom(v, MergeOne(v, res, translated[k]), translated, k + 1)

Merge(v, res, translated) == MergeFrom(v, res, translated, 1)

\* The progress value set on entry to a run.
EntryProgress(v) == IF v = "A1" THEN 0 ELSE 2

\* The progress value published after batch number k (1-based) of subs.
\* Math.floor of a quotient of small integers: exact in integer arithmetic
\* for the values the bounds allow.
BatchProgress(v, subs, k) ==
    CASE v = "A1" ->
            (((k - 1) * BATCH_SIZE + BATCH_SIZE) * 100) \div Len(subs)
      [] v = "P0" ->
            5 + (Min(k * BATCH_SIZE, Len(subs)) * 94) \div Len(subs)
      [] OTHER -> (k * 100) \div NumBatches(subs)

\* Whether results[index].text is assigned in place, so that an array
\* published earlier as [...results] sees the assignment.
MutatesInPlace(v) == v # "P0"

\* Whether processQueue refuses to start without a key.
QueueChecksKey(v) == v \in {"A2", "P1", "P2a", "P2b"}

\* Whether processQueue waits 2 s after a task that did not throw, and
\* processSingleTask 2 s between two batches.
HasDelays(v) == v = "P0"

\* Whether the remove button is disabled while the task is Processing.
RemoveGuarded(v) == v \notin {"A1", "A2"}

\* The message set when processSingleTask finds no key.
MsgNoKey(v) ==
    CASE v = "A1" -> "Chua nhap Key"
      [] v = "A2" -> "Vui long nhap API Key"
      [] v = "P0" -> "Chua cau hinh API Key"
      [] v = "P1" -> "Thieu API Key"
      [] OTHER -> "Vui long nhap OpenAI API Key"

\* error: err.message, or (part_000) err.message || "Loi trong qua trinh dich"
ErrorMessage(v, msg) ==
    IF v = "P0" /\ msg = "" THEN "Loi trong qua trinh dich" ELSE msg

\* ------------------------------------------------------------------ state
VARIABLES
    variant,            \* which version of App.tsx runs
    tasks,              \* useState<FileTask[]>: the queue
    isGlobalProcessing, \* the in-flight flag
    activeAI,           \* the provider selected
    apiKey,             \* the stored key of each provider
    uploads,            \* processFiles calls whose file reads are pending
    nextId,             \* ids handed out so far (Math.random ids are fresh)
    events,             \* user events taken so far
    runs,               \* processQueue runs started so far
    pc,                 \* where processQueue stands
    runTasks,           \* tasks as the running closure captured it
    pending,            \* processQueue: const pending
    qi,                 \* processQueue: position in pending
    runAI,              \* activeAI as the running closure captured it
    runKey,             \* the key as the running closure captured it
    task,               \* processSingleTask: const task
    results,            \* processSingleTask: const results
    bi,                 \* processSingleTask: batches completed
    fate,               \* history: how the current or last task run ended
    failure,            \* history: the message that run was rejected with
    calls,              \* history: requests sent in the current task run
    pubs,               \* history: progress values published in that run
    returned,           \* history: entries a result was returned for in that run
    illTyped,           \* history: a response of that run held a malformed element
    attempted           \* history: tasks processQueue has called so far

vars == <<variant, tasks, isGlobalProcessing, activeAI, apiKey, uploads, nextId,
          events, runs, pc, runTasks, pending, qi, runAI, runKey, task, results, bi,
          fate, failure, calls, pubs, returned, illTyped, attempted>>

env == <<variant, activeAI, apiKey, uploads, nextId, events>>
hist == <<fate, failure, calls, pubs, returned, illTyped, attempted>>
run == <<pc, runTasks, pending, qi, runAI, runKey, task, results, bi>>

Ids(ts) == {ts[k].id : k \in 1..Len(ts)}

\* setTasks(prev => prev.map(t => t.id === id ? {...t, ...updates} : t))
UpdateTask(ts, id, updates) ==
    [k \in 1..Len(ts) |-> IF ts[k].id = id THEN updates @@ ts[k] ELSE ts[k]]

PendingLastFirst(ts) ==
    LET sel == SelectSeq(ts, LAMBDA t : t.status # COMPLETED)
    IN  [k \in 1..Len(sel) |-> sel[Len(sel) + 1 - k]]

\* tasks.filter(t => t.status !== ProcessingStatus.COMPLETED)
Pending(ts) == SelectSeq(ts, LAMBDA t : t.status # COMPLETED)

\* setTasks(prev => prev.filter(t => t.id !== id))
Without(ts, id) == SelectSeq(ts, LAMBDA t : t.id # id)

NewTaskAlwaysIdle(v, id, file) ==
    [id |-> id, originalSubs |-> IF file.bad THEN <<>> ELSE ParseSRT(file),
     processedSubs |-> <<>>, prompt |-> "", status |-> IDLE, progress |-> 0,
     error |-> Undefined]

\* The FileTask that reader.onload resolves with.
NewTask(v, id, file) ==
    IF file.bad
    THEN [id |-> id, originalSubs |-> <<>>, processedSubs |-> <<>>, prompt |-> "",
          status |-> ERROR, progress |-> 0,
          error |-> IF v \in {"P2a", "P2b"} THEN Undefined ELSE "FormatError"]
    ELSE [id |-> id, originalSubs |-> ParseSRT(file), processedSubs |-> <<>>,
          prompt |-> "", status |-> IDLE, progress |-> 0, error |-> Undefined]

\* The value of `task` while processSingleTask is not running.
NoTask == [id |-> 0, originalSubs |-> <<>>, processedSubs |-> <<>>, prompt |-> "",
           status |-> IDLE, progress |-> 0, error |-> Undefined]

\* const task = tasks.find(t => t.id === taskId), in the closure's tasks.
Find(ts, id) == ts[CHOOSE k \in 1..Len(ts) : ts[k].id = id]
Cur == Find(runTasks, pending[qi].id)

Init ==
    /\ variant \in Variants
    /\ tasks = <<>>
    /\ isGlobalProcessing = FALSE
    /\ activeAI \in (IF variant = "A1" THEN Providers
                     ELSE IF variant = "P0" THEN {"gemini"} ELSE {"openai"})
    /\ apiKey \in {f \in [Providers -> {"", "k1"}] :
                      \A p \in Providers \ {activeAI} : f[p] = ""}
    /\ uploads = <<>>
    /\ nextId = 0
    /\ events = 0
    /\ runs = 0
    /\ pc = "idle"
    /\ runTasks = <<>>
    /\ pending = <<>>
    /\ qi = 1
    /\ runAI = "openai"
    /\ runKey = ""
    /\ task = NoTask
    /\ results = <<>>
    /\ bi = 0
    /\ fate = "none"
    /\ failure = ""
    /\ calls = <<>>
    /\ pubs = <<>>
    /\ returned = {}
    /\ illTyped = FALSE
    /\ attempted = <<>>

\* ------------------------------------------------------------ user events
\* The event loop takes a user event only between two handlers.
UserTurn == pc \in {"idle", "call", "delay", "qdelay"}

RECURSIVE SumN(_)
SumN(files) == IF files = <<>> THEN 0 ELSE Head(files).n + SumN(Tail(files))

RECURSIVE SumUploads(_)
SumUploads(ups) ==
    IF ups = <<>> THEN 0 ELSE SumN(Head(ups).files) + SumUploads(Tail(ups))

\* Entries of the files being read and of the tasks of the queue.
LiveEntries(ups, ts) ==
    SumUploads(ups) + SumN([k \in 1..Len(ts) |-> [n |-> Len(ts[k].originalSubs)]])

\* processFiles(files): one FileReader per file.
ProcessFiles(files) ==
    /\ UserTurn
    /\ events < MaxEvents
    /\ nextId + Len(files) <= MaxTasks
    /\ LiveEntries(uploads, tasks) + SumN(files) <= MaxTotal
    /\ uploads' = Append(uploads, [files |-> files, base |-> nextId, order |-> <<>>])
    /\ nextId' = nextId + Len(files)
    /\ events' = events + 1
    /\ UNCHANGED <<variant, tasks, isGlobalProcessing, activeAI, apiKey, runs>>
    /\ UNCHANGED <<run, hist>>

\* The files of an upload whose reader.onload has not run yet.
Unread(up) == {j \in 1..Len(up.files) : \A n \in 1..Len(up.order) : up.order[n] # j}

\* reader.onload of file j of upload u, other reads of the upload pending:
\* the promise of file j resolves, Promise.all waits for the others.
ReaderOnload(u, j) ==
    /\ UserTurn
    /\ u \in 1..Len(uploads)
    /\ j \in Unread(uploads[u])
    /\ uploads[u].files[j].readable
    /\ Cardinality(Unread(uploads[u])) > 1
    /\ uploads' = [uploads EXCEPT ![u].order = Append(@, j)]
    /\ UNCHANGED <<variant, tasks, isGlobalProcessing, activeAI, apiKey, nextId, events, runs>>
    /\ UNCHANGED <<run, hist>>

\* The files of an upload in the order in which their reads complete.
ReadOrder(up) == up.order \o <<CHOOSE j \in Unread(up) : TRUE>>

ResolvedInReadOrder(v, up) ==
    [n \in 1..Len(up.files) |->
        NewTask(v, up.base + ReadOrder(up)[n], up.files[ReadOrder(up)[n]])]

\* The reads of an upload are over.  Whatever the order of the onload
\* handlers, Promise.all resolves with the tasks by position.
Resolved(v, up) ==
    [j \in 1..Len(up.files) |-> NewTask(v, up.base + j, up.files[j])]

\* reader.onload of the last unread file of upload u: Promise.all resolves
\* and setTasks(prev => [...prev, ...resolved]).
FilesLoaded(u) ==
    /\ UserTurn
    /\ u \in 1..Len(uploads)
    /\ Cardinality(Unread(uploads[u])) = 1
    /\ \A j \in Unread(uploads[u]) : uploads[u].files[j].readable
    /\ tasks' = tasks \o Resolved(variant, uploads[u])
    /\ uploads' = SubSeq(uploads, 1, u - 1) \o SubSeq(uploads, u + 1, Len(uploads))
    /\ UNCHANGED <<variant, isGlobalProcessing, activeAI, apiKey, nextId, events, runs>>
    /\ UNCHANGED <<run, hist>>

\* The remove button of a task (disabled while Processing, except in App.tsx).
RemoveTask(id) ==
    /\ UserTurn
    /\ events < MaxEvents
    /\ id \in Ids(tasks)
    /\ RemoveGuarded(variant) => Find(tasks, id).status # PROCESSING
    /\ tasks' = Without(tasks, id)
    /\ events' = events + 1
    /\ UNCHANGED <<variant, isGlobalProcessing, activeAI, apiKey, uploads, nextId, runs>>
    /\ UNCHANGED <<run, hist>>

\* The statuses in which the prompt input of a task is enabled.
PromptEditable(v) == IF v = "P0" THEN {IDLE, ERROR} ELSE {IDLE}

\* The prompt input of a task: updateTask(task.id, {prompt}).
EditPrompt(id, p) ==
    /\ UserTurn
    /\ variant # "P2a"
    /\ events < MaxEvents
    /\ id \in Ids(tasks)
    /\ Find(tasks, id).status \in PromptEditable(variant)
    /\ Find(tasks, id).prompt # p
    /\ tasks' = UpdateTask(tasks, id, [prompt |-> p])
    /\ events' = events + 1
    /\ UNCHANGED <<variant, isGlobalProcessing, activeAI, apiKey, uploads, nextId, runs>>
    /\ UNCHANGED <<run, hist>>

\* Saving, typing or clearing a key in the settings panel.
SetKey(provider, k) ==
    /\ UserTurn
    /\ events < MaxEvents
    /\ provider \in ProvidersOf(variant)
    /\ apiKey[provider] # k
    /\ apiKey' = [apiKey EXCEPT ![provider] = k]
    /\ events' = events + 1
    /\ UNCHANGED <<variant, tasks, isGlobalProcessing, activeAI, uploads, nextId, runs>>
    /\ UNCHANGED <<run, hist>>

\* The provider switch of the two-provider variants.
SetActiveAI(provider) ==
    /\ UserTurn
    /\ events < MaxEvents
    /\ variant \in {"A1", "A2"}
    /\ activeAI # provider
    /\ activeAI' = provider
    /\ events' = events + 1
    /\ UNCHANGED <<variant, tasks, isGlobalProcessing, apiKey, uploads, nextId, runs>>
    /\ UNCHANGED <<run, hist>>

\* ----------------------------------------------------------- processQueue
\* A faulty guard, for the sensitivity of the single-run property: the flag
\* is not looked at.
StartEnabledNoFlag(v, flag, ts) ==
    IF v = "P0" THEN \E k \in 1..Len(ts) : ts[k].status # COMPLETED
    ELSE Len(ts) > 0

\* Whether the start button is enabled: not while isGlobalProcessing, not
\* without tasks and, in part_000, not without a task that is not Completed.
StartEnabled(v, flag, ts) ==
    /\ ~flag
    /\ IF v = "P0" THEN \E k \in 1..Len(ts) : ts[k].status # COMPLETED
       ELSE Len(ts) > 0

\* The start button, pressed at any point where a user event is taken:
\* processQueue up to its loop.  It returns at once while isGlobalProcessing
\* (the button is disabled then) and, in the versions that check the key,
\* without a key.
ProcessQueue ==
    /\ UserTurn
    /\ variant # "P2a"
    /\ runs < MaxRuns
    /\ StartEnabled(variant, isGlobalProcessing, tasks)
    /\ QueueChecksKey(variant) => apiKey[activeAI] # ""
    /\ isGlobalProcessing' = TRUE
    /\ runTasks' = tasks
    /\ pending' = Pending(tasks)
    /\ qi' = 1
    /\ runAI' = activeAI
    /\ runKey' = apiKey[activeAI]
    /\ pc' = "loop"
    /\ runs' = runs + 1
    /\ UNCHANGED <<env, tasks, task, results, bi, hist>>

\* part_002, first version: processQueue sets the flag and does nothing else.
ProcessQueueStub ==
    /\ UserTurn
    /\ variant = "P2a"
    /\ StartEnabled(variant, isGlobalProcessing, tasks)
    /\ apiKey[activeAI] # ""
    /\ isGlobalProcessing' = TRUE
    /\ runTasks' = tasks
    /\ UNCHANGED <<env, tasks, runs, pc, pending, qi, runAI, runKey, task, results, bi,
                   hist>>

\* Where processQueue stands after processSingleTask returned without throwing.
AfterReturn(v) == IF HasDelays(v) THEN "qdelay" ELSE "loop"

\* A faulty handler, for the sensitivity of the retry properties: the batch
\* that failed is sent again.
AfterThrowRetry(v) == "batch"

\* Where control goes when the catch block of processSingleTask has rethrown:
\* to the catch of processQueue and on to the next task.
AfterThrow(v) == "loop"

\* The loop is over: setIsGlobalProcessing(false).
QueueFinish ==
    /\ pc = "loop"
    /\ qi > Len(pending)
    /\ isGlobalProcessing' = FALSE
    /\ pc' = "idle"
    /\ runTasks' = <<>>
    /\ pending' = <<>>
    /\ qi' = 1
    /\ runAI' = "openai"
    /\ runKey' = ""
    /\ task' = NoTask
    /\ results' = <<>>
    /\ bi' = 0
    /\ fate' = "none"
    /\ failure' = ""
    /\ calls' = <<>>
    /\ pubs' = <<>>
    /\ returned' = {}
    /\ illTyped' = FALSE
    /\ attempted' = <<>>
    /\ UNCHANGED <<env, tasks, runs>>

BeginFromProcessed(how, published) ==
    /\ task' = Cur
    /\ attempted' = Append(attempted, Cur.id)
    /\ fate' = how
    /\ failure' = ""
    /\ calls' = <<>>
    /\ pubs' = published
    /\ returned' = {}
    /\ illTyped' = FALSE
    /\ results' = IF Cur.processedSubs # <<>> THEN Cur.processedSubs
                  ELSE Cur.originalSubs
    /\ bi' = 0

\* The history of a task run that begins.
Begin(how, published) ==
    /\ task' = Cur
    /\ attempted' = Append(attempted, Cur.id)
    /\ fate' = how
    /\ failure' = ""
    /\ calls' = <<>>
    /\ pubs' = published
    /\ returned' = {}
    /\ illTyped' = FALSE
    /\ results' = Cur.originalSubs
    /\ bi' = 0

TaskNoopCompletes ==
    /\ pc = "loop"
    /\ qi <= Len(pending)
    /\ Cur.originalSubs = <<>>
    /\ tasks' = UpdateTask(tasks, Cur.id, [status |-> COMPLETED, progress |-> 100])
    /\ Begin("noop", <<>>)
    /\ qi' = qi + 1
    /\ pc' = AfterReturn(variant)
    /\ UNCHANGED <<env, isGlobalProcessing, runs, runTasks, pending, runAI, runKey>>

\* processSingleTask on a task without entries: return.
TaskNoop ==
    /\ pc = "loop"
    /\ qi <= Len(pending)
    /\ Cur.originalSubs = <<>>
    /\ Begin("noop", <<>>)
    /\ qi' = qi + 1
    /\ pc' = AfterReturn(variant)
    /\ UNCHANGED <<env, tasks, isGlobalProcessing, runs, runTasks, pending, runAI, runKey>>

\* processSingleTask without a key (all versions but App.tsx 1-356): the task
\* is set to Error and the function returns.
TaskNoKey ==
    /\ pc = "loop"
    /\ qi <= Len(pending)
    /\ Cur.originalSubs # <<>>
    /\ variant # "A1"
    /\ runKey = ""
    /\ tasks' = UpdateTask(tasks, Cur.id, [status |-> ERROR, error |-> MsgNoKey(variant)])
    /\ Begin("nokey", <<>>)
    /\ qi' = qi + 1
    /\ pc' = AfterReturn(variant)
    /\ UNCHANGED <<env, isGlobalProcessing, runs, runTasks, pending, runAI, runKey>>

EntryUpdateKeepsError(v) ==
    [status |-> PROCESSING, progress |-> EntryProgress(v)]

\* processSingleTask, entry: the task is set to Processing.
EntryUpdate(v) ==
    [status |-> PROCESSING, progress |-> EntryProgress(v), error |-> Undefined]

TaskStart ==
    /\ pc = "loop"
    /\ qi <= Len(pending)
    /\ Cur.originalSubs # <<>>
    /\ variant = "A1" \/ runKey # ""
    /\ tasks' = UpdateTask(tasks, Cur.id, EntryUpdate(variant))
    /\ Begin("running", <<EntryProgress(variant)>>)
    /\ pc' = "batch"
    /\ UNCHANGED <<env, isGlobalProcessing, runs, runTasks, pending, qi, runAI, runKey>>

\* ------------------------------------------------------ processSingleTask
CallLiveKey(k) ==
    [batch |-> Batches(task.originalSubs)[k], prompt |-> task.prompt,
     key |-> apiKey[activeAI], provider |-> runAI]

\* The request translateSubtitleBatch sends for batch number k of the task.
Call(k) ==
    [batch |-> Batches(task.originalSubs)[k], prompt |-> task.prompt,
     key |-> runKey, provider |-> runAI]

\* A faulty publication, for the sensitivity of the shape properties: the
\* batch instead of the working copy.
PublishBatchOnly(v, subs, k, res) ==
    [progress |-> BatchProgress(v, subs, k),
     processedSubs |-> Slice(res, (k - 1) * BATCH_SIZE)]

\* The update published after batch number k.
Publish(v, subs, k, res) ==
    [progress |-> BatchProgress(v, subs, k), processedSubs |-> res]

\* The final updateTask of a run that went through; App.tsx leaves
\* processedSubs out of it.
FinalUpdate(v, res) ==
    IF v \in {"A1", "A2"} THEN [status |-> COMPLETED, progress |-> 100]
    ELSE [processedSubs |-> res, status |-> COMPLETED, progress |-> 100]

\* The catch block: updateTask(task.id, {status: ERROR, error: err.message}).
CatchUpdate(v, msg) == [status |-> ERROR, error |-> ErrorMessage(v, msg)]

\* The ids of the entries for which a response carries a result (an integer
\* id, as a TranslationResult has it).
ReturnedIds(subs, translated) ==
    {subs[i].id : i \in {j \in 1..Len(subs) : \E k \in 1..Len(translated) :
        ~translated[k].isNull /\ translated[k].id = NumId(subs[j].id)}}

\* Whether a response carries an element that is no TranslationResult.
IllTyped(translated) ==
    \E k \in 1..Len(translated) : translated[k].isNull \/ ~translated[k].id.isNum

\* The top of the loop over the batches.  App.tsx 1-356 checks the key here
\* and throws without one; otherwise the request for the batch goes out.
BatchCall ==
    /\ pc = "batch"
    /\ IF variant = "A1" /\ runKey = ""
       THEN /\ tasks' = UpdateTask(tasks, task.id, CatchUpdate(variant, MsgNoKey(variant)))
            /\ fate' = "nokey"
            /\ failure' = MsgNoKey(variant)
            /\ qi' = IF AfterThrow(variant) = "loop" THEN qi + 1 ELSE qi
            /\ pc' = AfterThrow(variant)
            /\ UNCHANGED calls
       ELSE /\ calls' = Append(calls, Call(bi + 1))
            /\ pc' = "call"
            /\ UNCHANGED <<tasks, fate, failure, qi>>
    /\ UNCHANGED <<env, isGlobalProcessing, runs, runTasks, pending, runAI, runKey,
                   task, results, bi, pubs, returned, illTyped, attempted>>

\* The provider answers the request in flight and translateSubtitleBatch
\* settles: the results are merged and published, or the catch block runs.
ProviderResponds(raw) ==
    /\ pc = "call"
    /\ LET out == Adapter(runAI, raw)
           subs == task.originalSubs
           k == bi + 1
           m == Merge(variant, results, out.value)
       IN  IF ~out.ok \/ ~out.isArray \/ m.threw
           THEN \* the await throws, or forEach does
                /\ tasks' =
                     IF out.ok /\ out.isArray /\ MutatesInPlace(variant) /\ bi > 0
                     THEN \* the entries published after the batch before are the
                          \* objects the forEach has just written to
                          UpdateTask(UpdateTask(tasks, task.id, [processedSubs |-> m.res]),
                                     task.id, CatchUpdate(variant, MsgTypeError))
                     ELSE UpdateTask(tasks, task.id,
                            CatchUpdate(variant, IF out.ok THEN MsgTypeError ELSE out.msg))
                /\ results' = IF out.ok /\ out.isArray THEN m.res ELSE results
                /\ fate' = IF out.ok THEN "threw" ELSE "rejected"
                /\ failure' = IF out.ok THEN MsgTypeError ELSE out.msg
                /\ returned' = IF out.ok /\ out.isArray
                               THEN returned \cup ReturnedIds(subs, out.value)
                               ELSE returned
                /\ illTyped' = (illTyped \/ out.ok)
                /\ qi' = IF AfterThrow(variant) = "loop" THEN qi + 1 ELSE qi
                /\ pc' = AfterThrow(variant)
                /\ UNCHANGED <<bi, pubs>>
           ELSE /\ tasks' = UpdateTask(tasks, task.id, Publish(variant, subs, k, m.res))
                /\ results' = m.res
                /\ bi' = k
                /\ pubs' = Append(pubs, Publish(variant, subs, k, m.res).progress)
                /\ returned' = returned \cup ReturnedIds(subs, out.value)
                /\ illTyped' = (illTyped \/ IllTyped(out.value))
                /\ pc' = IF k < NumBatches(subs)
                         THEN (IF HasDelays(variant) THEN "delay" ELSE "batch")
                         ELSE "final"
                /\ UNCHANGED <<fate, failure, qi>>
    /\ UNCHANGED <<env, isGlobalProcessing, runs, runTasks, pending, runAI, runKey,
                   task, calls, attempted>>

\* part_000: the 2 s between two batches are over.
BatchTimer ==
    /\ pc = "delay"
    /\ pc' = "batch"
    /\ UNCHANGED <<env, tasks, isGlobalProcessing, runs, runTasks, pending, qi, runAI,
                   runKey, task, results, bi, hist>>

\* All batches are through: the task is set to Completed.
TaskComplete ==
    /\ pc = "final"
    /\ tasks' = UpdateTask(tasks, task.id, FinalUpdate(variant, results))
    /\ pubs' = Append(pubs, FinalUpdate(variant, results).progress)
    /\ fate' = "completed"
    /\ qi' = qi + 1
    /\ pc' = AfterReturn(variant)
    /\ UNCHANGED <<env, isGlobalProcessing, runs, runTasks, pending, runAI, runKey,
                   task, results, bi, failure, calls, returned, illTyped, attempted>>

\* part_000: the 2 s after a task are over; the loop goes on.
QueueTimer ==
    /\ pc = "qdelay"
    /\ pc' = "loop"
    /\ UNCHANGED <<env, tasks, isGlobalProcessing, runs, runTasks, pending, qi, runAI,
                   runKey, task, results, bi, hist>>

\* ---------------------------------------------------------- specification
Files == {f \in SeqsUpTo(FileKinds, MaxTasks) : f # <<>>}

Next ==
    \/ \E files \in Files : ProcessFiles(files)
    \/ \E u \in 1..MaxTasks, j \in 1..MaxTasks : ReaderOnload(u, j)
    \/ \E u \in 1..MaxTasks : FilesLoaded(u)
    \/ \E id \in 1..MaxTasks : RemoveTask(id)
    \/ \E id \in 1..MaxTasks, p \in Prompts : EditPrompt(id, p)
    \/ \E provider \in Providers, k \in Keys : SetKey(provider, k)
    \/ \E provider \in Providers : SetActiveAI(provider)
    \/ ProcessQueue
    \/ ProcessQueueStub
    \/ QueueFinish
    \/ TaskNoop
    \/ TaskNoKey
    \/ TaskStart
    \/ BatchCall
    \/ \E raw \in RawResponses : ProviderResponds(raw)
    \/ BatchTimer
    \/ TaskComplete
    \/ QueueTimer

Spec == Init /\ [][Next]_vars

\* The steps of the program, the provider and the timers, as opposed to the
\* user's.  The event loop runs every continuation that is ready, a request
\* to the provider settles and a timer fires.
Program ==
    \/ QueueFinish
    \/ TaskNoop
    \/ TaskNoKey
    \/ TaskStart
    \/ BatchCall
    \/ \E raw \in RawResponses : ProviderResponds(raw)
    \/ BatchTimer
    \/ TaskComplete
    \/ QueueTimer

FairSpec == Spec /\ WF_vars(Program)

\* The reads of the files: a FileReader that can deliver its file does.
Reads ==
    \/ \E u \in 1..MaxTasks, j \in 1..MaxTasks : ReaderOnload(u, j)
    \/ \E u \in 1..MaxTasks : FilesLoaded(u)

FairReadSpec == FairSpec /\ WF_vars(Reads)

\* ------------------------------------------------------------- properties
\* The task of the current or last task run, as the queue shows it now.
Shown == Find(tasks, task.id)
IsShown == task.id \in Ids(tasks)

\* The entries the request in flight was sent for.
InFlight == calls[Len(calls)].batch

\* The entries of all requests of the task run, in the order sent.
RECURSIVE Sent(_)
Sent(k) == IF k = 0 THEN <<>> ELSE Sent(k - 1) \o calls[k].batch

\* C1: the merge alters no entry outside the batch that was sent, whatever
\* ids the response carries (an id of another batch, an id of no entry), and
\* a response made of translation results does not make it raise.
C1_MergeStaysInBatch ==
    [][pc = "call" =>
        /\ \A i \in 1..Len(results) :
              (\A j \in 1..Len(InFlight) : InFlight[j].id # results[i].id)
                 => results'[i] = results[i]
        /\ fate' = "threw" => illTyped']_vars

\* C2: the progress values published in a task run never decrease, and a run
\* that succeeds ends on 100.
C2_ProgressMonotone ==
    /\ \A k \in 1..(Len(pubs) - 1) : pubs[k] <= pubs[k + 1]
    /\ fate = "completed" => pubs[Len(pubs)] = 100

\* C3: the progress of every task is within 0..100 in every state.
C3_ProgressInRange ==
    \A k \in 1..Len(tasks) : tasks[k].progress \in 0..100

\* C4: processedSubs of every task is empty or has the length and the ids of
\* originalSubs, position by position.
C4_ShapePreserved ==
    \A k \in 1..Len(tasks) :
        \/ tasks[k].processedSubs = <<>>
        \/ /\ Len(tasks[k].processedSubs) = Len(tasks[k].originalSubs)
           /\ \A i \in 1..Len(tasks[k].originalSubs) :
                 tasks[k].processedSubs[i].id = tasks[k].originalSubs[i].id

\* A task that a run left in Error with part of its entries translated.
C4_Witness ==
    \E k \in 1..Len(tasks) :
        /\ tasks[k].status = ERROR
        /\ \E i \in 1..Len(tasks[k].processedSubs) :
              tasks[k].processedSubs[i].text = TransText
        /\ \E i \in 1..Len(tasks[k].processedSubs) :
              tasks[k].processedSubs[i].text = OrigText

\* A task run is over without a rejected request: it went through, or the
\* merge of a response raised.
Unrejected == fate \in {"completed", "threw"}

\* C5: the batches sent are not empty, hold at most BATCH_SIZE entries and
\* are, in the order sent, a prefix of the entries of the task; a run in which
\* no request was rejected has sent ceil(len / BATCH_SIZE) of them, which make
\* up all entries.
C5_Partition ==
    LET E == task.originalSubs
        n == Len(Sent(Len(calls)))
    IN  /\ \A k \in 1..Len(calls) :
              Len(calls[k].batch) \in 1..BATCH_SIZE
        /\ n <= Len(E)
        /\ Sent(Len(calls)) = SubSeq(E, 1, n)
        /\ Unrejected =>
              /\ Sent(Len(calls)) = E
              /\ (Len(calls) - 1) * BATCH_SIZE < Len(E)
              /\ Len(E) <= Len(calls) * BATCH_SIZE

\* C6: at the end of a run in which every request was answered the task is
\* Completed with progress 100, the entries whose id was returned carry the
\* returned text and the others their original text, also when a response
\* holds fewer results than the batch has entries.
C6_Success ==
    Unrejected /\ IsShown =>
        /\ Shown.status = COMPLETED
        /\ Shown.progress = 100
        /\ ~illTyped =>
              /\ Len(Shown.processedSubs) = Len(task.originalSubs)
              /\ \A i \in 1..Len(task.originalSubs) :
                    Shown.processedSubs[i].text =
                       IF task.originalSubs[i].id \in returned
                       THEN TransText ELSE task.originalSubs[i].text

\* C7: when request number k is rejected the task ends in Error with the
\* message of the rejection, the progress last published, and processedSubs
\* holding the merges of the batches before k only: the entries of batch k
\* and of the later batches have their original text.
C7_Failure ==
    fate = "rejected" /\ IsShown =>
        /\ Shown.status = ERROR
        /\ Shown.error = failure
        /\ Shown.progress = pubs[Len(pubs)]
        /\ \A i \in 1..Len(Shown.processedSubs) :
              i > (Len(calls) - 1) * BATCH_SIZE =>
                 Shown.processedSubs[i].text = task.originalSubs[i].text

\* C8: no batch is sent twice in a task run, and once a request is rejected
\* the run sends no further request.
C8_NoRetry ==
    /\ [](\A j, k \in 1..Len(calls) : j < k => calls[j].batch # calls[k].batch)
    /\ [][fate = "rejected" /\ fate' = "rejected" => calls' = calls]_vars

\* A run whose second request was rejected.
C8_Witness ==
    /\ fate = "rejected"
    /\ Len(calls) = 2
    /\ pc = "loop"

\* The ids of the tasks that were not Completed when the queue was started.
Selected ==
    LET S == SelectSeq(runTasks, LAMBDA t : t.status # COMPLETED)
    IN  [k \in 1..Len(S) |-> S[k].id]

\* processQueue is through with its tasks (the stub of part_002 as soon as it
\* has set the flag).
QueueThrough ==
    \/ variant = "P2a" /\ isGlobalProcessing
    \/ pc = "loop" /\ qi > Len(pending)

\* C9: a queue run attempts the tasks that were not Completed when it was
\* started, once each and in the order of the queue, whatever the outcome of
\* each; when it is through it has attempted them all, and it does not touch
\* a task enqueued after it was started.
C9_QueueSelection ==
    isGlobalProcessing =>
        /\ Len(attempted) <= Len(Selected)
        /\ attempted = SubSeq(Selected, 1, Len(attempted))
        /\ QueueThrough => attempted = Selected
        /\ \A k \in 1..Len(tasks) :
              tasks[k].id \notin Ids(runTasks) =>
                 /\ tasks[k].status \in {IDLE, ERROR}
                 /\ tasks[k].progress = 0
                 /\ tasks[k].processedSubs = <<>>

\* C10: whenever the in-flight flag is set it is cleared later.
C10_FlagCleared == isGlobalProcessing ~> ~isGlobalProcessing

\* C11: while a queue run is active no further run starts: no invocation of
\* processQueue gets past its guard, so none replaces the tasks selected by
\* the active run or begins a second loop over the queue.
C11_SingleRun ==
    [][isGlobalProcessing =>
          /\ runs' = runs
          /\ isGlobalProcessing' => runTasks' = runTasks /\ pending' = pending]_vars

\* A request is in flight and the queue holds a task that is not Completed:
\* but for the flag the start button would be enabled.
C11_Witness ==
    /\ isGlobalProcessing
    /\ pc = "call"
    /\ StartEnabledNoFlag(variant, isGlobalProcessing, tasks)
    /\ \E k \in 1..Len(tasks) : tasks[k].status = IDLE

\* C12: a queue run attempts every task that was not Completed when it was
\* started, Idle or Error, and leaves every task that was Completed then as
\* it was: the run does not attempt it, sends no request for it and changes
\* none of its fields.
C12_RetryNotDone ==
    isGlobalProcessing =>
        \A k \in 1..Len(runTasks) :
            IF runTasks[k].status = COMPLETED
            THEN /\ \A n \in 1..Len(attempted) : attempted[n] # runTasks[k].id
                 /\ task.id # runTasks[k].id
                 /\ runTasks[k].id \in Ids(tasks) =>
                       Find(tasks, runTasks[k].id) = runTasks[k]
            ELSE QueueThrough =>
                    \E n \in 1..Len(attempted) : attempted[n] = runTasks[k].id

\* C13: no task is removed from the queue while its status is Processing: a
\* task that is Processing before a step is in the queue after it.
C13_NoRemoveWhileProcessing ==
    [][\A k \in 1..Len(tasks) :
          tasks[k].status = PROCESSING => tasks[k].id \in Ids(tasks')]_vars

C15_Additive ==
    [][/\ \A u \in 1..Len(uploads) :
             FilesLoaded(u) =>
                 /\ SubSeq(tasks', 1, Len(tasks)) = tasks
                 /\ Len(tasks') = Len(tasks) + Len(uploads[u].files)
                 /\ \A j \in 1..Len(uploads[u].files) :
                       /\ tasks'[Len(tasks) + j].id = uploads[u].base + j
                       /\ Len(tasks'[Len(tasks) + j].originalSubs)
                             = uploads[u].files[j].n
       /\ uploads' # uploads /\ Len(uploads') >= Len(uploads) => tasks' = tasks]_vars

\* A queue run is active on the first task, and an upload made of a file
\* that the run did not select has joined the queue behind it.
C15_Witness ==
    /\ isGlobalProcessing
    /\ Len(tasks) = 2
    /\ uploads = <<>>
    /\ tasks[1].status = PROCESSING
    /\ tasks[2].status = IDLE
    /\ tasks[2].id \notin Ids(runTasks)

\* C16: running a task whose originalSubs is empty is a no-op: every task
\* without entries that the active queue run has attempted has the status,
\* progress, error and processedSubs it had when the run was started, and no
\* request was sent and no update published for it.
C16_EmptyNoop ==
    \A n \in 1..Len(attempted) :
        LET t == Find(runTasks, attempted[n])
        IN  t.originalSubs = <<>> =>
               /\ t.id \in Ids(tasks) =>
                     /\ Find(tasks, t.id).status = t.status
                     /\ Find(tasks, t.id).progress = t.progress
                     /\ Find(tasks, t.id).error = t.error
                     /\ Find(tasks, t.id).processedSubs = t.processedSubs
               /\ task.id = t.id => calls = <<>> /\ pubs = <<>>

C16_Witness ==
    /\ fate = "noop"
    /\ task.originalSubs = <<>>
    /\ task.id \in Ids(tasks)
    /\ \E n \in 1..Len(attempted) : attempted[n] = task.id

\* C17: the lifecycle of a task: its status changes only from Idle or Error
\* to Processing, with the progress reset and the error cleared, and from
\* Processing to Completed or to Error; so a task never becomes Completed or
\* Error in a run without having been Processing in that run.
C17_Lifecycle ==
    [][\A k \in 1..Len(tasks) :
          tasks[k].id \in Ids(tasks') =>
              LET before == tasks[k]
                  after == Find(tasks', tasks[k].id)
              IN  after.status # before.status =>
                     \/ /\ before.status \in {IDLE, ERROR}
                        /\ after.status = PROCESSING
                        /\ after.progress = EntryProgress(variant)
                        /\ after.error = Undefined
                     \/ /\ before.status = PROCESSING
                        /\ after.status \in {COMPLETED, ERROR}]_vars

\* ---------------------------------------------------------------------------
\* translateSubtitleBatch on its own: one call of an adapter with a batch, a
\* prompt and a key, and the answer of the provider.

\* What the provider can answer: without a key it refuses the request.
AdapterResponses(key) ==
    IF key = "" THEN {RawFail(401, "Incorrect API key provided")}
    ELSE RawResponses \cup {RawFail(500, "")}

AdapterInit ==
    /\ variant = "A2"
    /\ tasks = <<>>
    /\ isGlobalProcessing = FALSE
    /\ activeAI = "openai"
    /\ apiKey = [p \in Providers |-> ""]
    /\ uploads = <<>>
    /\ nextId = 0
    /\ events = 0
    /\ runs = 0
    /\ pc = "enter"
    /\ runTasks = <<>>
    /\ pending = <<>>
    /\ qi = 1
    /\ runAI \in Providers
    /\ runKey \in Keys
    /\ \E n \in 1..BATCH_SIZE, p \in Prompts :
          task = [NoTask EXCEPT !.originalSubs = ParseSRT(GoodFile(n)), !.prompt = p]
    /\ results = <<>>
    /\ bi = 0
    /\ fate = "none"
    /\ failure = ""
    /\ calls = <<>>
    /\ pubs = <<>>
    /\ returned = {}
    /\ illTyped = FALSE
    /\ attempted = <<>>

\* translateSubtitleBatch builds the request and sends it: neither adapter
\* looks at the key before.
AdapterFetch ==
    /\ pc = "enter"
    /\ calls' = <<[batch |-> task.originalSubs, prompt |-> task.prompt,
                   key |-> runKey, provider |-> runAI]>>
    /\ pc' = "sent"
    /\ UNCHANGED <<env, tasks, isGlobalProcessing, runs, runTasks, pending, qi, runAI,
                   runKey, task, results, bi, fate, failure, pubs, returned,
                   illTyped, attempted>>

\* The provider answers and the promise of translateSubtitleBatch settles.
AdapterSettles(raw) ==
    /\ pc = "sent"
    /\ raw \in AdapterResponses(runKey)
    /\ LET out == Adapter(runAI, raw)
       IN  /\ fate' = IF out.ok THEN "resolved" ELSE "rejected"
           /\ failure' = out.msg
           /\ results' = out.value
           /\ illTyped' = (out.ok /\ (~out.isArray \/ IllTyped(out.value)))
    /\ pc' = "settled"
    /\ UNCHANGED <<env, tasks, isGlobalProcessing, runs, runTasks, pending, qi, runAI,
                   runKey, task, bi, calls, pubs, returned, attempted>>

AdapterNext ==
    \/ AdapterFetch
    \/ \E raw \in AdapterResponses("") \cup AdapterResponses("k1") : AdapterSettles(raw)

AdapterSpec == AdapterInit /\ [][AdapterNext]_vars

\* C18: an adapter that is given an empty key fails without a request to the
\* provider: once the call is past its entry, no request has been sent and
\* the call has failed.
C18_FailFast ==
    (runKey = "" /\ pc \in {"sent", "settled"}) => (calls = <<>> /\ fate = "rejected")

\* A response body that cannot be parsed, or is not the collection of
\* {id, translatedText} pairs that was asked for.
Malformed(raw) ==
    \/ raw.kind \in {"garbage", "wrongshape"}
    \/ raw.kind = "list" /\ \E k \in 1..Len(raw.value) : raw.value[k].isNull

\* The structural-error message of an adapter.
MsgShape(provider) == IF provider = "openai" THEN MsgOpenAIShape ELSE MsgGeminiShape

\* C19: when the provider answers a batch with a malformed response, the
\* adapter rejects with its structural-error message, no entry has its text
\* changed by that batch, and the task is set to Error with that message.
C19_Malformed ==
    [][\A raw \in RawResponses :
          (Malformed(raw) /\ ProviderResponds(raw)) =>
              /\ fate' = "rejected"
              /\ failure' = MsgShape(runAI)
              /\ results' = results
              /\ task.id \in Ids(tasks') =>
                    /\ Find(tasks', task.id).status = ERROR
                    /\ Find(tasks', task.id).error = MsgShape(runAI)
                    /\ Find(tasks', task.id).processedSubs
                          = Find(tasks, task.id).processedSubs]_vars

\* C20: when the provider answers a batch with HTTP 429, the adapter rejects
\* with the fixed "requests too frequent" message, that message becomes the
\* error of the task, and the batch is not sent again.
C20_RateLimit ==
    [][ProviderResponds(RawFail(429, "rate limited")) =>
          /\ fate' = "rejected"
          /\ failure' = MsgGeminiRate
          /\ calls' = calls
          /\ pc' \notin {"batch", "call"}
          /\ task.id \in Ids(tasks') =>
                /\ Find(tasks', task.id).status = ERROR
                /\ Find(tasks', task.id).error = MsgGeminiRate]_vars

\* The requests of the task run that were sent and have not settled.
Outstanding ==
    Len(calls) - bi - (IF fate \in {"rejected", "threw"} THEN 1 ELSE 0)

\* C21: processing is strictly sequential: at most one task of the queue is
\* Processing and at most one request to a provider is outstanding; a task
\* that is Processing during a queue run is the one the run is at.
C21_Sequential ==
    /\ Cardinality({k \in 1..Len(tasks) : tasks[k].status = PROCESSING}) <= 1
    /\ Outstanding \in {0, 1}
    /\ Outstanding = 1 <=> pc = "call"
    /\ \A k \in 1..Len(tasks) : tasks[k].status = PROCESSING => tasks[k].id = task.id

\* A request is outstanding for one task while another task that the run
\* selected waits for its turn.
C21_Witness ==
    /\ pc = "call"
    /\ Len(tasks) = 2
    /\ Len(pending) = 2
    /\ tasks[1].status = PROCESSING
    /\ tasks[2].status = IDLE
    /\ tasks[2].originalSubs # <<>>

\* C22: nothing is done for a task that is no longer in the queue: when a
\* queue run turns to a task and sets it to Processing, and whenever it sends
\* a request for a batch of a task, that task is in the queue.
C22_NoCallForRemoved ==
    [][/\ TaskStart => Cur.id \in Ids(tasks)
       /\ Len(calls') = Len(calls) + 1 => task.id \in Ids(tasks)]_vars

\* C23: the prompt sent with the requests of a task is the prompt the task
\* has in the queue when its run begins: the run of a task takes the prompt
\* the queue shows for it at that moment, and every request of the run
\* carries that prompt.
C23_PromptAtRunStart ==
    [][/\ (TaskStart /\ Cur.id \in Ids(tasks)) =>
             task'.prompt = Find(tasks, Cur.id).prompt
       /\ Len(calls') = Len(calls) + 1 =>
             calls'[Len(calls')].prompt = task.prompt]_vars

\* The position in the tasks the run was started on of the n-th task it
\* attempted.
PositionOf(n) == CHOOSE k \in 1..Len(runTasks) : runTasks[k].id = attempted[n]

\* C24: ordering.  Within a task run the n-th request is for the n-th batch
\* of the entries in their original order, and it is sent only after the
\* results of the requests before it were merged and published; across
\* tasks, the run attempts the tasks that were not Completed in the order
\* they had in the queue when the run was started, skipping none.
C24_Ordering ==
    /\ \A n \in 1..Len(calls) :
          calls[n].batch =
              SubSeq(task.originalSubs, (n - 1) * BATCH_SIZE + 1,
                     Min(n * BATCH_SIZE, Len(task.originalSubs)))
    /\ Len(calls) <= bi + 1
    /\ Len(calls) >= 1 => Len(pubs) >= Len(calls)
    /\ \A n \in 1..Len(attempted) :
          /\ \E k \in 1..Len(runTasks) : runTasks[k].id = attempted[n]
          /\ \A m \in 1..(n - 1) : PositionOf(m) < PositionOf(n)
          /\ \A k \in 1..(PositionOf(n) - 1) :
                runTasks[k].status # COMPLETED =>
                    \E m \in 1..(n - 1) : attempted[m] = runTasks[k].id

\* The run is at its second task, in queue order, and has sent the request
\* for the second batch of that task.
C24_Witness ==
    /\ Len(attempted) = 2
    /\ PositionOf(1) = 1 /\ PositionOf(2) = 2
    /\ pc = "call"
    /\ Len(calls) = 2
    /\ bi = 1

\* C25: incremental publication: once the results of a batch are merged and
\* until the next request is sent (or the final update is made), the task is
\* still Processing and its processedSubs is the working copy with the merges
\* of all batches so far: the entries for which a result came carry the
\* translation, the others their original text.
C25_Incremental ==
    (pc \in {"batch", "delay", "final"} /\ bi >= 1 /\ IsShown) =>
        /\ Shown.status = PROCESSING
        /\ Shown.processedSubs = results
        /\ ~illTyped =>
              /\ Len(Shown.processedSubs) = Len(task.originalSubs)
              /\ \A i \in 1..Len(task.originalSubs) :
                    Shown.processedSubs[i].text =
                       IF task.originalSubs[i].id \in returned
                       THEN TransText ELSE task.originalSubs[i].text

\* Between the first and the second batch of a task: the first entry is
\* translated, the last one not yet.
C25_Witness ==
    /\ pc = "batch"
    /\ bi = 1
    /\ bi < NumBatches(task.originalSubs)
    /\ IsShown
    /\ Shown.status = PROCESSING
    /\ Shown.processedSubs[1].text = TransText
    /\ Shown.processedSubs[Len(task.originalSubs)].text = OrigText

\* C26: the merge writes only text: no step changes the originalSubs of a
\* task, and in every processedSubs that a task shows each entry has the id
\* and the time span of the originalSubs entry at the same position.
C26_OnlyText ==
    [][\A k \in 1..Len(tasks') :
          LET t == tasks'[k]
          IN  /\ t.id \in Ids(tasks) => t.originalSubs = Find(tasks, t.id).originalSubs
              /\ \A i \in 1..Len(t.processedSubs) :
                    /\ i <= Len(t.originalSubs)
                    /\ t.processedSubs[i].id = t.originalSubs[i].id
                    /\ t.processedSubs[i].time = t.originalSubs[i].time]_vars

\* A task went through a run and shows a translated entry.
C26_Witness ==
    \E k \in 1..Len(tasks) :
        /\ tasks[k].status = COMPLETED
        /\ \E i \in 1..Len(tasks[k].processedSubs) :
              /\ tasks[k].processedSubs[i].text = TransText
              /\ tasks[k].originalSubs[i].text = OrigText

\* C27: ids are matched exactly: when the results of a response are merged,
\* an entry of the working copy changes only if the response carries a result
\* whose id is the integer id of that entry; a result whose id is the string
\* form of an id changes nothing.
C27_ExactIds ==
    [][\A raw \in RawResponses :
          (raw.kind = "list" /\ ProviderResponds(raw)) =>
              \A i \in 1..Len(results) :
                  results'[i] # results[i] =>
                      \E k \in 1..Len(raw.value) :
                          /\ ~raw.value[k].isNull
                          /\ raw.value[k].id = NumId(results[i].id)]_vars

\* C28: a key changed during a queue run does not reach the requests of that
\* run: a run takes the key that is set when it is started, keeps it to its
\* end, and every request it sends carries it; the next run takes the key
\* set then.
C28_KeyCaptured ==
    [][/\ runs' = runs + 1 => runKey' = apiKey[activeAI]
       /\ (pc # "idle" /\ pc' # "idle") => runKey' = runKey
       /\ Len(calls') = Len(calls) + 1 => calls'[Len(calls')].key = runKey]_vars

\* The key was cleared during the run, and the request for the second batch
\* has gone out with the key of the start.
C28_Witness ==
    /\ pc = "call"
    /\ Len(calls) = 2
    /\ runKey = "k1"
    /\ apiKey[runAI] = ""
    /\ calls[2].key = "k1"

\* C29: a delay runs only between two consecutive batches of a task: while
\* a timer is pending, at least one batch of the task is merged and at least
\* one is still to be sent; no delay follows the final batch of a task.
C29_DelayPlacement ==
    pc \in {"delay", "qdelay"} =>
        /\ fate = "running"
        /\ 1 <= bi
        /\ bi < NumBatches(task.originalSubs)

\* C30: every error is attached to its task: each task of the queue whose
\* status is Error carries an error message, and the message is not empty.
C30_ErrorHasMessage ==
    \A k \in 1..Len(tasks) :
        tasks[k].status = ERROR =>
            /\ tasks[k].error # Undefined
            /\ tasks[k].error # ""

\* C31: a file that fails does not hold back its upload: every upload is
\* eventually enqueued, each of its files as a task.
C31_UploadEnqueued == (uploads # <<>>) ~> (uploads = <<>>)

\* C32: status and fields agree: after every step a task that is Processing
\* or Completed carries no error message and a Completed task has progress
\* 100; and a task that is Completed stays Completed as long as it is in the
\* queue.
C32_StatusFields ==
    [][/\ \A k \in 1..Len(tasks') :
             /\ tasks'[k].status \in {PROCESSING, COMPLETED} =>
                   tasks'[k].error = Undefined
             /\ tasks'[k].status = COMPLETED => tasks'[k].progress = 100
       /\ \A k \in 1..Len(tasks) :
             (tasks[k].status = COMPLETED /\ tasks[k].id \in Ids(tasks')) =>
                 Find(tasks', tasks[k].id).status = COMPLETED]_vars

\* A task that failed in an earlier run is Processing again, its error
\* cleared, beside a task that is Completed and was left out of the run.
C32_Witness ==
    /\ pc \in {"batch", "call"}
    /\ IsShown
    /\ Find(runTasks, task.id).status = ERROR
    /\ Find(runTasks, task.id).error # Undefined
    /\ Shown.status = PROCESSING
    /\ Shown.error = Undefined
    /\ \E k \in 1..Len(tasks) : tasks[k].status = COMPLETED /\ tasks[k].progress = 100

\* C33: the processedSubs a task shows changes only at a publish: a step
\* that is not a publish of the task run, the failure of a batch in
\* particular, leaves the processedSubs of every task as it was.
C33_OnlyAtPublish ==
    [][\A k \in 1..Len(tasks) :
          (/\ tasks[k].id \in Ids(tasks')
           /\ Find(tasks', tasks[k].id).processedSubs # tasks[k].processedSubs) =>
              /\ tasks[k].id = task.id
              /\ Len(pubs') = Len(pubs) + 1]_vars

\* The task of the current task run as it was when the queue run was
\* started.
AtStart == Find(runTasks, task.id)

\* C34: the run of a task that failed earlier starts from originalSubs: its
\* requests are for all batches again from the first, and once it has
\* published a batch the task shows no translation of the earlier run: for
\* well-typed responses, an entry carries a translation only if a result came
\* for it in this run, and its original text otherwise.
C34_RerunFromOriginal ==
    (task.id # 0 /\ AtStart.status = ERROR) =>
        /\ \A n \in 1..Len(calls) : calls[n].batch = Batches(task.originalSubs)[n]
        /\ (bi >= 1 /\ IsShown /\ ~illTyped) =>
              \A i \in 1..Len(task.originalSubs) :
                  Shown.processedSubs[i].text =
                     IF task.originalSubs[i].id \in returned
                     THEN TransText ELSE task.originalSubs[i].text

\* The earlier run left the first entry translated and failed; the new run
\* has published its first batch, for which no result came, and the task
\* shows the original text of that entry.
C34_Witness ==
    /\ task.id # 0
    /\ AtStart.status = ERROR
    /\ Len(AtStart.processedSubs) >= 1
    /\ AtStart.processedSubs[1].text = TransText
    /\ bi >= 1
    /\ IsShown
    /\ ~illTyped
    /\ Shown.processedSubs[1].text = OrigText

====
